---- MODULE Spec2Model ----
(***************************************************************************)
(* A model of src/src/blockchain.rs: the Chain (ledger `records`, block    *)
(* list `chain`, pending queue `current_transaction`, difficulty, miner    *)
(* address, reward) and its operations new, new_transaction, last_hash,    *)
(* update_difficulty, update_reward and generate_new_block, together with  *)
(* the pure helpers get_merkle, proof_of_work, hash and hex_to_string.     *)
(*                                                                         *)
(* Representation.                                                         *)
(*  - A String of hexadecimal characters is a sequence of digit values     *)
(*    0..15 (0 is the character '0', 10..15 are 'a'..'f').                 *)
(*  - f32 amounts and balances are integers (no rounding, no NaN).         *)
(*  - SHA-256 (crate sha2) is a fixed deterministic digest of DigestBytes  *)
(*    bytes computed from the serialized input; its bytes range over       *)
(*    ByteTable, which has bytes below and above 16 and the byte 0.        *)
(*  - u32 nonces range over 0..NonceLimit-1.                               *)
(***************************************************************************)
EXTENDS Integers, Sequences, FiniteSets, TLC

\* ------------------------------------------------------------------ bounds
MaxCalls == 3           \* calls made on the Chain after Chain::new
NonceLimit == 16        \* stands for 2^32: nonces are 0..NonceLimit-1

\* -------------------------------------------------------- program constants
SentinelLen == 64       \* vec![48; 64]
InitialReward == 100    \* reward: 100.0
DigestBytes == 32       \* Sha256 output size

\* ------------------------------------------------------------ input domains
Accounts == {"miner1", "bob"}
Miners == {"miner1"}
Amounts == {30, 200}
Rewards == {50}
Difficulties == {0, 1, 2, 65}
Timestamps == {0, 1}

SystemSender == "Root"

\* ------------------------------------------------------------------- values
Transaction(sender, receiver, amount) ==
    [sender |-> sender, receiver |-> receiver, amount |-> amount]

Header(timestamp, nonce, pre_hash, merkle_root, difficulty) ==
    [timestamp |-> timestamp, nonce |-> nonce, pre_hash |-> pre_hash,
     merkle_root |-> merkle_root, difficulty |-> difficulty]

Block(header, count, transactions) ==
    [header |-> header, count |-> count, transactions |-> transactions]

\* ------------------------------------------------------------ serialization
\* serde_json::to_string: the fields in declaration order, as a byte string.
\* Each account name has its own bytes; a number is its sign and magnitude;
\* a String is its characters between quotes.
NameBytes(name) ==
    CASE name = "miner1" -> <<109, 49>>
      [] name = "bob"    -> <<98, 111>>
      [] name = "Root"   -> <<82, 116>>
      [] OTHER           -> <<63>>

NumberBytes(n) == IF n < 0 THEN <<45, -n>> ELSE <<n>>

StringBytes(s) == <<34>> \o s \o <<34>>

TransactionBytes(t) ==
    <<123, 34>> \o NameBytes(t.sender) \o <<34, 44, 34>> \o NameBytes(t.receiver)
        \o <<34, 44>> \o NumberBytes(t.amount) \o <<125>>

HeaderBytes(h) ==
    <<123>> \o NumberBytes(h.timestamp) \o <<44>> \o NumberBytes(h.nonce) \o <<44>>
        \o StringBytes(h.pre_hash) \o <<44>> \o StringBytes(h.merkle_root)
        \o <<44>> \o NumberBytes(h.difficulty) \o <<125>>

\* ------------------------------------------------------------------ hashing
\* The digest: the (non-empty) input is absorbed into one word, pairwise over
\* halves of the input, from which DigestBytes bytes are squeezed.
ByteTable == <<0, 7, 10, 16, 171>>

AbsorbLeaf(bytes, lo, hi) ==
    CASE hi = lo     -> bytes[lo]
      [] hi = lo + 1 -> bytes[lo] * 31 + bytes[hi]
      [] hi = lo + 2 -> (bytes[lo] * 31 + bytes[lo + 1]) * 31 + bytes[hi]
      [] OTHER       -> ((bytes[lo] * 31 + bytes[lo + 1]) * 31 + bytes[lo + 2]) * 31
                            + bytes[hi]

RECURSIVE Absorb(_, _, _)
Absorb(bytes, lo, hi) ==
    IF hi - lo <= 3
    THEN ((AbsorbLeaf(bytes, lo, hi) % 65521) * 131 + 7) % 65521
    ELSE LET mid == (lo + hi) \div 2
         IN  (Absorb(bytes, lo, mid) * 31 + Absorb(bytes, mid + 1, hi) * 17 + 1) % 65521

Squeeze(word, n) ==
    [i \in 1..n |->
        ByteTable[(((word * (2 * i + 1) + i * 7919) % 65537) % Len(ByteTable)) + 1]]

Sha256(bytes) == Squeeze(Absorb(bytes, 1, Len(bytes)), DigestBytes)

\* write!(&mut s, "{:x}", b): lowercase hexadecimal with no padding, so a byte
\* below 16 is written as one character.
HexByte(b) == IF b < 16 THEN <<b>> ELSE <<b \div 16, b % 16>>

RECURSIVE hex_to_string(_)
hex_to_string(vec_res) ==
    IF vec_res = <<>> THEN <<>>
    ELSE HexByte(Head(vec_res)) \o hex_to_string(Tail(vec_res))

hash(bytes) == hex_to_string(Sha256(bytes))

hash_header(h) == hash(HeaderBytes(h))
hash_transaction(t) == hash(TransactionBytes(t))
hash_string(s) == hash(StringBytes(s))

\* ------------------------------------------------------------- get_merkle
\* while merkle.len() > 1: remove the first two hashes, push the hash of their
\* concatenation to the back.
RECURSIVE MerkleFold(_)
MerkleFold(merkle) ==
    IF Len(merkle) > 1
    THEN MerkleFold(SubSeq(merkle, 3, Len(merkle))
                        \o <<hash_string(merkle[1] \o merkle[2])>>)
    ELSE merkle

MerkleLeaves(transactions) ==
    [i \in 1..Len(transactions) |-> hash_transaction(transactions[i])]

\* A faulty variant: an odd list of leaves is not padded.
MerklePadNone(merkle) == merkle

\* if merkle.len() % 2 == 1: push a clone of the last leaf.
MerklePad(merkle) ==
    IF Len(merkle) % 2 = 1 THEN Append(merkle, merkle[Len(merkle)]) ELSE merkle

\* merkle.pop().unwrap(): the list is never empty here (a block always holds
\* the reward transaction).
get_merkle(current_transactions) ==
    LET folded == MerkleFold(MerklePad(MerkleLeaves(current_transactions)))
    IN  folded[Len(folded)]

\* ---------------------------------------------------------- proof_of_work
\* str::parse::<u32>: Err on the empty string, on a character that is not a
\* decimal digit and on a value above u32::MAX; val is the value's digits
\* without leading zeros (<<>> is zero). (A leading '+' is accepted by parse,
\* and never occurs in a string of hexadecimal characters.)
U32MaxDigits == <<4, 2, 9, 4, 9, 6, 7, 2, 9, 5>>

RECURSIVE StripZeros(_)
StripZeros(s) ==
    IF s # <<>> /\ Head(s) = 0 THEN StripZeros(Tail(s)) ELSE s

RECURSIVE DigitsLeq(_, _)
DigitsLeq(a, b) ==
    IF a = <<>> THEN TRUE
    ELSE IF Head(a) # Head(b) THEN Head(a) < Head(b)
    ELSE DigitsLeq(Tail(a), Tail(b))

ParseErr == [ok |-> FALSE, val |-> <<>>]

ParseU32(slice) ==
    IF slice = <<>> THEN ParseErr
    ELSE IF \E i \in 1..Len(slice) : slice[i] > 9 THEN ParseErr
    ELSE LET digits == StripZeros(slice)
         IN  IF Len(digits) > Len(U32MaxDigits) THEN ParseErr
             ELSE IF Len(digits) = Len(U32MaxDigits) /\ ~DigitsLeq(digits, U32MaxDigits)
                  THEN ParseErr
             ELSE [ok |-> TRUE, val |-> digits]

\* One pass of the loop body on the current header: "sealed" (break), "retry"
\* (header.nonce += 1) or "panic" (&hash[..difficulty] past the end of hash).
\* A faulty variant: Err(_) is taken for the value 0.
PowAcceptsErr(parsed) == parsed.val = <<>>

\* Ok(val) with val == 0 is the break.
PowAccepts(parsed) == parsed.ok /\ parsed.val = <<>>

PowTry(header) ==
    LET h == hash_header(header)
    IN  IF header.difficulty > Len(h) THEN "panic"
        ELSE IF PowAccepts(ParseU32(SubSeq(h, 1, header.difficulty))) THEN "sealed"
        ELSE "retry"

\* The loop. header.nonce += 1 on the last nonce overflows u32: the call does
\* not return ("overflow": a panic in a debug build, a wrap-around and an
\* endless loop in a release build).
RECURSIVE proof_of_work(_)
proof_of_work(header) ==
    LET t == PowTry(header)
    IN  IF t = "sealed" THEN [outcome |-> "sealed", header |-> header]
        ELSE IF t = "panic" THEN [outcome |-> "panic", header |-> header]
        ELSE IF header.nonce + 1 >= NonceLimit
             THEN [outcome |-> "overflow", header |-> header]
        ELSE proof_of_work([header EXCEPT !.nonce = header.nonce + 1])

\* -------------------------------------------------------------------- state
VARIABLES
    records,              \* HashMap<String, f32>: a function on the accounts with an entry
    chain,                \* Vec<Block>
    current_transaction,  \* Vec<Transaction>: the pending queue
    difficulty,           \* u32
    miner_address,        \* String
    reward,               \* f32
    status,               \* "constructing", "ready", or the call did not return:
                          \* "panicked" / "hung"
    lastCall,             \* history: the last call, its arguments and what it returned
    before,               \* history: records when the last call started
    accepted,             \* history: the transactions new_transaction queued, in order
    calls                 \* history: the number of calls made after Chain::new

vars == <<records, chain, current_transaction, difficulty, miner_address, reward,
          status, lastCall, before, accepted, calls>>

Call(op, sender, receiver, value, ret) ==
    [op |-> op, sender |-> sender, receiver |-> receiver, value |-> value, ret |-> ret]

EmptyRecords == [a \in {} |-> 0]

\* vec![48; 64]
Sentinel == [i \in 1..SentinelLen |-> 0]

\* --------------------------------------------------------------- operations
\* A faulty variant: the hash of the last header as it was before sealing.
last_hash_of_unsealed(blocks) ==
    IF blocks = <<>> THEN Sentinel
    ELSE hash_header([blocks[Len(blocks)].header EXCEPT !.nonce = 0])

last_hash_of(blocks) ==
    IF blocks = <<>> THEN Sentinel
    ELSE hash_header(blocks[Len(blocks)].header)

last_hash == last_hash_of(chain)

\* A faulty variant: records.insert in both arms: an entry is overwritten.
CreditOverwrite(recs, receiver, amount) ==
    [a \in DOMAIN recs \cup {receiver} |->
        IF a = receiver THEN amount ELSE recs[a]]

\* A faulty variant: no insert in the None arm: only an entry is credited.
CreditExistingOnly(recs, receiver, amount) ==
    IF receiver \in DOMAIN recs
    THEN [recs EXCEPT ![receiver] = recs[receiver] + amount]
    ELSE recs

\* records.get_mut(receiver): += amount on an entry, insert otherwise.
Credit(recs, receiver, amount) ==
    IF receiver \in DOMAIN recs
    THEN [recs EXCEPT ![receiver] = recs[receiver] + amount]
    ELSE [a \in DOMAIN recs \cup {receiver} |->
            IF a = receiver THEN amount ELSE recs[a]]

\* check_transfer_availability: "false" on an insufficient balance; "panic"
\* when the sender has no entry (records.get_mut(sender).unwrap() on None);
\* otherwise "true" with the sender debited and then the receiver credited.
\* A faulty variant: the comparison with its operands swapped.
SufficientBalanceSwapped(balance, amount) == ~(amount < balance)

\* A faulty variant: no transfer is rejected.
SufficientBalanceAlways(balance, amount) == TRUE

\* `val.clone() < amount` is the rejection.
SufficientBalance(balance, amount) == ~(balance < amount)

\* A faulty variant: the sender is not debited.
DebitNone(recs, sender, amount) == recs

\* *self.records.get_mut(sender).unwrap() -= amount.
Debit(recs, sender, amount) == [recs EXCEPT ![sender] = recs[sender] - amount]

check_transfer_availability(recs, sender, receiver, amount) ==
    IF sender \in DOMAIN recs /\ ~SufficientBalance(recs[sender], amount)
    THEN [ret |-> "false", records |-> recs]
    ELSE IF sender \notin DOMAIN recs
    THEN [ret |-> "panic", records |-> recs]
    ELSE [ret |-> "true",
          records |-> Credit(Debit(recs, sender, amount), receiver, amount)]

\* A faulty variant: the reward of the constructor instead of self.reward.
RewardTransactionInitial == Transaction(SystemSender, miner_address, InitialReward)

RewardTransaction == Transaction(SystemSender, miner_address, reward)

\* A faulty variant: the pending transactions are not moved into the block.
BlockTransactionsRewardOnly == <<RewardTransaction>>

\* block.transactions after the push and the append.
BlockTransactions == <<RewardTransaction>> \o current_transaction

\* A faulty variant: the queue is copied into the block, not drained.
PendingKept == current_transaction

\* self.current_transaction after Vec::append(&mut self.current_transaction).
PendingAfterAppend == <<>>

\* A faulty variant: the count is taken before the pending queue is appended.
BlockCountBeforeAppend == Len(<<RewardTransaction>>)

\* block.count = block.transactions.len() as u32.
BlockCount == Len(BlockTransactions)

\* A faulty variant: the Merkle root is computed before the pending queue is appended.
UnsealedHeaderEarlyRoot(timestamp) ==
    Header(timestamp, 0, last_hash, get_merkle(<<RewardTransaction>>), difficulty)

\* A faulty variant: the difficulty of the last block, not self.difficulty.
UnsealedHeaderStaleDifficulty(timestamp) ==
    Header(timestamp, 0, last_hash, get_merkle(BlockTransactions),
           IF chain = <<>> THEN difficulty ELSE chain[Len(chain)].header.difficulty)

\* The header generate_new_block hands to proof_of_work.
UnsealedHeader(timestamp) ==
    Header(timestamp, 0, last_hash, get_merkle(BlockTransactions), difficulty)

\* A faulty variant: the miner is paid the constructor's reward.
MinedCoinsInitial == InitialReward

\* The amount added to records[miner_address]: `+= self.reward` / insert(.., self.reward).
MinedCoins == reward

\* A faulty variant: the block is inserted at the front of the chain.
PushBlockFront(block) == <<block>> \o chain

\* self.chain.push(block).
PushBlock(block) == Append(chain, block)

\* generate_new_block, called as `op` (by Chain::new or by the caller).
GenerateNewBlockAs(op, timestamp) ==
    LET pow == proof_of_work(UnsealedHeader(timestamp))
    IN  /\ before' = records
        /\ calls' = IF op = "new" THEN 0 ELSE calls + 1
        /\ current_transaction' = PendingAfterAppend
        /\ UNCHANGED <<difficulty, miner_address, reward, accepted>>
        /\ IF pow.outcome = "sealed"
           THEN /\ records' = Credit(records, miner_address, MinedCoins)
                /\ chain' = PushBlock(Block(pow.header, BlockCount, BlockTransactions))
                /\ status' = "ready"
                /\ lastCall' = Call(op, "-", "-", timestamp, "true")
           ELSE /\ UNCHANGED <<records, chain>>
                /\ \E s \in IF pow.outcome = "panic" THEN {"panicked"}
                            ELSE {"panicked", "hung"} :
                      /\ status' = s
                      /\ lastCall' = Call(op, "-", "-", timestamp,
                                          IF s = "hung" THEN "hang" ELSE "panic")

\* Chain::new: the struct literal is Init; this is chain.generate_new_block().
ChainNew ==
    /\ status = "constructing"
    /\ \E timestamp \in Timestamps : GenerateNewBlockAs("new", timestamp)

generate_new_block ==
    /\ status = "ready"
    /\ calls < MaxCalls
    /\ \E timestamp \in Timestamps : GenerateNewBlockAs("generate_new_block", timestamp)

new_transaction ==
    /\ status = "ready"
    /\ calls < MaxCalls
    /\ \E sender \in Accounts, receiver \in Accounts, amount \in Amounts :
         LET r == check_transfer_availability(records, sender, receiver, amount)
         IN  /\ before' = records
             /\ calls' = calls + 1
             /\ records' = r.records
             /\ lastCall' = Call("new_transaction", sender, receiver, amount, r.ret)
             /\ status' = IF r.ret = "panic" THEN "panicked" ELSE "ready"
             /\ IF r.ret = "true"
                THEN /\ current_transaction' =
                            Append(current_transaction,
                                   Transaction(sender, receiver, amount))
                     /\ accepted' = Append(accepted,
                                           Transaction(sender, receiver, amount))
                ELSE UNCHANGED <<current_transaction, accepted>>
             /\ UNCHANGED <<chain, difficulty, miner_address, reward>>

update_difficulty ==
    /\ status = "ready"
    /\ calls < MaxCalls
    /\ \E d \in Difficulties :
         /\ difficulty' = d
         /\ lastCall' = Call("update_difficulty", "-", "-", d, "true")
    /\ before' = records
    /\ calls' = calls + 1
    /\ UNCHANGED <<records, chain, current_transaction, miner_address, reward,
                   status, accepted>>

update_reward ==
    /\ status = "ready"
    /\ calls < MaxCalls
    /\ \E r \in Rewards :
         /\ reward' = r
         /\ lastCall' = Call("update_reward", "-", "-", r, "true")
    /\ before' = records
    /\ calls' = calls + 1
    /\ UNCHANGED <<records, chain, current_transaction, difficulty, miner_address,
                   status, accepted>>

\* last_hash(&self), called by the caller: lastCall.value is the String returned.
LastHash ==
    /\ status = "ready"
    /\ calls < MaxCalls
    /\ lastCall' = Call("last_hash", "-", "-", last_hash, "hash")
    /\ before' = records
    /\ calls' = calls + 1
    /\ UNCHANGED <<records, chain, current_transaction, difficulty, miner_address,
                   reward, status, accepted>>

\* Chain { records: HashMap::new(), chain: Vec::new(), current_transaction:
\* Vec::new(), difficulty, miner_address, reward: 100.0 }
Init ==
    /\ records = EmptyRecords
    /\ chain = <<>>
    /\ current_transaction = <<>>
    /\ difficulty \in Difficulties
    /\ miner_address \in Miners
    /\ reward = InitialReward
    /\ status = "constructing"
    /\ lastCall = Call("-", "-", "-", 0, "-")
    /\ before = EmptyRecords
    /\ accepted = <<>>
    /\ calls = 0

Next ==
    \/ ChainNew
    \/ generate_new_block
    \/ new_transaction
    \/ update_difficulty
    \/ update_reward
    \/ LastHash

Spec == Init /\ [][Next]_vars

\* ============================================================== properties
Returned == status = "ready"

Balance(recs, account) == IF account \in DOMAIN recs THEN recs[account] ELSE 0

AllZeroChars(str, n) == n <= Len(str) /\ \A k \in 1..n : str[k] = 0

IsPrefix(short, long) ==
    Len(short) <= Len(long) /\ SubSeq(long, 1, Len(short)) = short

\* The submitted transactions held by the blocks (every transaction after a
\* block's first), block by block, followed by the pending queue.
RECURSIVE SubmittedInBlocks(_)
SubmittedInBlocks(blocks) ==
    IF blocks = <<>> THEN <<>>
    ELSE SubmittedInBlocks(SubSeq(blocks, 1, Len(blocks) - 1))
            \o Tail(blocks[Len(blocks)].transactions)

QueuedTransactions == SubmittedInBlocks(chain) \o current_transaction

\* The step is a call of `op` (every call sets lastCall and counts).
StepIsCall(op) == lastCall'.op = op /\ calls' = calls + 1

\* C1: the genesis block's pre_hash is 64 '0' characters, and every later
\* block's pre_hash is the hash of the sealed header stored just before it.
C1_PreHashLinks ==
    \A i \in 1..Len(chain) :
        IF i = 1
        THEN /\ Len(chain[1].header.pre_hash) = 64
             /\ AllZeroChars(chain[1].header.pre_hash, 64)
        ELSE chain[i].header.pre_hash = hash_header(chain[i - 1].header)

C1_Witness ==
    /\ Len(chain) >= 3
    /\ chain[1].header.nonce > 0
    /\ chain[2].header.nonce > 0

\* C2: for every block of the chain, the first header.difficulty characters of
\* the hash of its header are all '0'.
C2_SealedHeaders ==
    \A i \in 1..Len(chain) :
        AllZeroChars(hash_header(chain[i].header), chain[i].header.difficulty)

C2_Witness ==
    \E i \in 1..Len(chain) :
        /\ chain[i].header.difficulty = 2
        /\ chain[i].header.nonce > 0

\* The difficulty predicate of the specification: some nonce of the range
\* gives the header a hash with header.difficulty leading '0' characters.
SomeNonceSeals(header) ==
    \E n \in 0..(NonceLimit - 1) :
        AllZeroChars(hash_header([header EXCEPT !.nonce = n]), header.difficulty)

\* C3: every call of generate_new_block whose header some nonce seals returns
\* true and appends exactly one block.
C3_GenerateAlwaysSucceeds ==
    [][(/\ Returned
        /\ StepIsCall("generate_new_block")
        /\ SomeNonceSeals(UnsealedHeader(lastCall'.value)))
          => /\ status' = "ready"
             /\ lastCall'.ret = "true"
             /\ Len(chain') = Len(chain) + 1
             /\ IsPrefix(chain, chain')]_vars

\* The step is a transfer whose sender has an entry with a balance below the
\* amount: it returns false and changes nothing.
C4_RejectStep ==
    (/\ StepIsCall("new_transaction")
     /\ lastCall'.sender \in DOMAIN records
     /\ records[lastCall'.sender] < lastCall'.value)
       => /\ lastCall'.ret = "false"
          /\ status' = "ready"
          /\ UNCHANGED <<records, current_transaction, chain, accepted>>

\* C4: a transfer whose sender has an entry with a balance below the amount
\* returns false and changes neither the ledger, nor the pending queue, nor the
\* chain; the queue and the blocks hold accepted transactions only.
C4_RejectedTransfer ==
    /\ [][C4_RejectStep]_vars
    /\ [](Returned => QueuedTransactions = accepted)

C4_Witness ==
    /\ lastCall.op = "new_transaction"
    /\ lastCall.ret = "false"
    /\ lastCall.sender \in DOMAIN before
    /\ before[lastCall.sender] < lastCall.value
    /\ Len(chain) >= 2

\* The frame of an accepted transfer: it returns true, appends exactly the
\* transaction to the pending queue, and changes neither a block nor the
\* balance of an account other than the sender and the receiver.
TransferAccepted(sender, receiver, amount) ==
    /\ lastCall'.ret = "true"
    /\ status' = "ready"
    /\ current_transaction' =
          Append(current_transaction, Transaction(sender, receiver, amount))
    /\ chain' = chain
    /\ DOMAIN records' = DOMAIN records \cup {receiver}
    /\ \A a \in DOMAIN records \ {sender, receiver} : records'[a] = records[a]

SufficientStep ==
    /\ StepIsCall("new_transaction")
    /\ lastCall'.sender \in DOMAIN records
    /\ records[lastCall'.sender] >= lastCall'.value

SubmitThenGenerate ==
    /\ lastCall.op = "new_transaction"
    /\ lastCall.ret = "true"
    /\ StepIsCall("generate_new_block")
    /\ lastCall'.ret = "true"

InNewBlockOnly(transaction) ==
    LET block == chain'[Len(chain')]
    IN  /\ Len(chain') = Len(chain) + 1
        /\ block.transactions[Len(block.transactions)] = transaction
        /\ current_transaction' = <<>>

\* C6 as stated: after the submission and the block, B's balance is amt
\* higher and A's amt lower than before the submission.
C6_Original ==
    [][SubmitThenGenerate =>
         /\ records'[lastCall.receiver] = Balance(before, lastCall.receiver) + lastCall.value
         /\ records'[lastCall.sender] = Balance(before, lastCall.sender) - lastCall.value]_vars

\* What the submission of (A, B, amt) and the block change in x's balance.
C6_Delta(x) ==
    (IF x = lastCall.receiver THEN lastCall.value ELSE 0)
    - (IF x = lastCall.sender THEN lastCall.value ELSE 0)
    + (IF x = miner_address THEN reward ELSE 0)

\* C6 (amended): after the submission and the block, the balance of A and of B
\* is what it was before the submission, plus amt for B, minus amt for A, plus
\* the reward for the miner; the transaction is the last of the new block, the
\* pending queue is empty, and the blocks and the queue hold every accepted
\* transaction once.
C6_SubmitThenGenerate ==
    /\ [][SubmitThenGenerate =>
            /\ \A x \in {lastCall.sender, lastCall.receiver} :
                  records'[x] = Balance(before, x) + C6_Delta(x)
            /\ InNewBlockOnly(Transaction(lastCall.sender, lastCall.receiver,
                                          lastCall.value))]_vars
    /\ [](Returned => QueuedTransactions = accepted)

C6_Witness ==
    /\ lastCall.op = "generate_new_block"
    /\ lastCall.ret = "true"
    /\ Len(chain) = 3
    /\ Tail(chain[2].transactions) = <<Transaction(miner_address, "bob", 30)>>
    /\ Len(chain[3].transactions) = 1
    /\ Balance(records, "bob") = 30
    /\ Balance(records, miner_address) = 100 - 30 + 2 * reward

C7_DrainStep ==
    (StepIsCall("generate_new_block") /\ lastCall'.ret = "true")
       => /\ Len(chain') = Len(chain) + 1
          /\ chain'[Len(chain')].transactions
                = <<Transaction(SystemSender, miner_address, reward)>>
                    \o current_transaction
          /\ current_transaction' = <<>>

\* C7: a returning generate_new_block makes the new block's transactions the
\* reward transaction followed by the pending queue, in order, and empties the
\* queue; the blocks and the queue together hold the accepted transactions,
\* each once, in the order of their submission.
C7_DrainsPending ==
    /\ [][C7_DrainStep]_vars
    /\ [](Returned => QueuedTransactions = accepted)

C7_Witness ==
    /\ Len(chain) >= 2
    /\ Len(chain[2].transactions) = 3
    /\ chain[2].transactions[2] # chain[2].transactions[3]
    /\ current_transaction = <<>>

\* C8: new_transaction with a sender that has no ledger entry returns a
\* boolean to the caller.
C8_MissingSenderReturns ==
    (lastCall.op = "new_transaction" /\ lastCall.sender \notin DOMAIN before)
       => /\ status = "ready"
          /\ lastCall.ret \in {"true", "false"}

C9_BlockRewards ==
    \A i \in 1..Len(chain) :
        /\ chain[i].transactions # <<>>
        /\ chain[i].transactions[1].sender = "Root"
        /\ chain[i].transactions[1].receiver = miner_address
        /\ i = 1 => chain[i].transactions[1].amount = 100

C9_Step ==
    /\ IsPrefix(chain, chain')
    /\ (StepIsCall("generate_new_block") /\ lastCall'.ret = "true")
          => /\ Len(chain') = Len(chain) + 1
             /\ chain'[Len(chain')].transactions[1].amount = reward

\* C9: the first transaction of every block is from "Root" to miner_address;
\* its amount is 100 in the genesis block and, in a block generated later, the
\* reward in force when the block was generated; a block of the chain is not
\* changed afterwards.
C9_RewardFirst ==
    /\ []C9_BlockRewards
    /\ [][C9_Step]_vars

C9_Witness ==
    /\ Len(chain) = 3
    /\ chain[2].transactions[1].amount = 50
    /\ chain[1].transactions[1].amount = 100

\* C10: when Chain::new returns, the chain is the genesis block alone, with the
\* one transaction ("Root", miner_address, 100), a pre_hash of 64 '0'
\* characters and the given difficulty; the pending queue is empty and the
\* ledger is miner_address with 100.
C10_AfterNew ==
    (lastCall.op = "new" /\ Returned)
       => /\ Len(chain) = 1
          /\ chain[1].transactions = <<Transaction("Root", miner_address, 100)>>
          /\ Len(chain[1].header.pre_hash) = 64
          /\ AllZeroChars(chain[1].header.pre_hash, 64)
          /\ chain[1].header.difficulty = difficulty
          /\ current_transaction = <<>>
          /\ DOMAIN records = {miner_address}
          /\ records[miner_address] = 100

C10_Witness ==
    /\ lastCall.op = "new"
    /\ Returned
    /\ difficulty = 2

\* C11: a call of last_hash returns a string of 64 hexadecimal characters, two
\* for each of the 32 bytes of the digest; after Chain::new with difficulty 1
\* its first character is '0'.
C11_LastHashLength ==
    lastCall.op = "last_hash"
       => /\ Len(lastCall.value) = 2 * DigestBytes
          /\ \A i \in 1..Len(lastCall.value) : lastCall.value[i] \in 0..15
          /\ (calls = 1 /\ difficulty = 1) => lastCall.value[1] = 0

GenerateReturns ==
    /\ StepIsCall("generate_new_block") \/ (status = "constructing" /\ lastCall'.op = "new")
    /\ lastCall'.ret = "true"

C12_GenerateStep ==
    GenerateReturns
       => /\ DOMAIN records' = DOMAIN records \union {miner_address}
          /\ records'[miner_address] = Balance(records, miner_address) + reward
          /\ \A account \in DOMAIN records' \ {miner_address} :
                records'[account] = records[account]

C12_Trace ==
    /\ Returned
    /\ calls = 2
    /\ miner_address = "miner1"
    /\ chain[1].header.difficulty = 1
    /\ accepted = <<Transaction("miner1", "bob", 30)>>
    /\ lastCall.op = "generate_new_block"

\* C12: the only effect of generate_new_block on the ledger is the addition of
\* the current reward to the miner's balance (the entry is created if absent),
\* no other account changes; and after Chain::new("miner1", 1), an accepted
\* new_transaction("miner1", "bob", 30) and a generate_new_block, the new block
\* holds the reward and then the transfer, and the ledger is miner1 = 170,
\* bob = 30.
C12_GenerateCreditsMiner ==
    /\ [][C12_GenerateStep]_vars
    /\ [](C12_Trace
            => /\ Len(chain) = 2
               /\ chain[2].count = 2
               /\ chain[2].transactions =
                     <<Transaction(SystemSender, "miner1", 100),
                       Transaction("miner1", "bob", 30)>>
               /\ DOMAIN records = {"miner1", "bob"}
               /\ records["miner1"] = 170
               /\ records["bob"] = 30)

C12_Witness ==
    /\ C12_Trace
    /\ difficulty = 1
    /\ records = [account \in {"miner1", "bob"} |->
                     IF account = "miner1" THEN 170 ELSE 30]

\* C13: the merkle_root of every block's header is the Merkle root of the
\* block's final transaction list; it is set before the block is sealed and no
\* later operation changes it.
C13_MerkleRootCommits ==
    /\ [](\A i \in 1..Len(chain) :
             chain[i].header.merkle_root = get_merkle(chain[i].transactions))
    /\ [][\A i \in 1..Len(chain) :
             /\ i <= Len(chain')
             /\ chain'[i].header.merkle_root = chain[i].header.merkle_root
             /\ chain'[i].transactions = chain[i].transactions]_vars

C13_Witness ==
    /\ Len(chain) = 2
    /\ Len(chain[2].transactions) = 3
    /\ chain[2].header.merkle_root = get_merkle(chain[2].transactions)
    /\ chain[2].header.merkle_root # get_merkle(<<chain[2].transactions[1]>>)
    /\ lastCall.op = "generate_new_block"

\* C14: the count of every block is the number of its transactions; the genesis
\* block has count 1, and a block generated while k transactions were pending
\* has count k + 1.
C14_CountIsLength ==
    /\ [](\A i \in 1..Len(chain) : chain[i].count = Len(chain[i].transactions))
    /\ [](Len(chain) >= 1 => chain[1].count = 1)
    /\ [][GenerateReturns
            => chain'[Len(chain')].count = Len(current_transaction) + 1]_vars

C14_Witness ==
    /\ Len(chain) = 2
    /\ chain[1].count = 1
    /\ chain[2].count = 3
    /\ Len(chain[2].transactions) = 3
    /\ lastCall.op = "generate_new_block"

\* The smallest nonce of the range whose hash has header.difficulty leading
\* '0' characters.
SmallestSealingNonce(header) ==
    CHOOSE n \in 0..(NonceLimit - 1) :
        /\ AllZeroChars(hash_header([header EXCEPT !.nonce = n]), header.difficulty)
        /\ \A m \in 0..(n - 1) :
              ~AllZeroChars(hash_header([header EXCEPT !.nonce = m]), header.difficulty)

\* C15: proof_of_work, started on a header with nonce 0, stops at the smallest
\* nonce whose hash has header.difficulty leading '0' characters, for every
\* difficulty from 0 on: its test accepts exactly those hashes, every smaller
\* nonce fails it, and only header.nonce is modified.
C15_SmallestNonce ==
    status \in {"constructing", "ready"}
       => \A timestamp \in Timestamps :
             LET header == UnsealedHeader(timestamp)
                 pow == proof_of_work(header)
             IN  /\ \A n \in 0..(NonceLimit - 1) :
                        LET tried == [header EXCEPT !.nonce = n]
                        IN  (PowTry(tried) = "sealed")
                               <=> AllZeroChars(hash_header(tried), header.difficulty)
                 /\ SomeNonceSeals(header)
                       => /\ pow.outcome = "sealed"
                          /\ pow.header =
                                [header EXCEPT !.nonce = SmallestSealingNonce(header)]

\* C16: the chain is an append-only log: it has at least one block once it is
\* constructed; the block list before any step is an unchanged prefix of the
\* list after it; only generate_new_block extends it, by exactly one block.
C16_AppendOnly ==
    /\ [](Returned => Len(chain) >= 1)
    /\ [][/\ IsPrefix(chain, chain')
          /\ \A op \in {"new_transaction", "update_difficulty", "update_reward",
                        "last_hash"} : StepIsCall(op) => chain' = chain
          /\ chain' # chain
                => /\ GenerateReturns
                   /\ Len(chain') = Len(chain) + 1]_vars

C16_Witness ==
    /\ Returned
    /\ Len(chain) = 3
    /\ chain[1] # chain[2]
    /\ chain[2] # chain[3]
    /\ before # records

\* C17: update_difficulty and update_reward return true and change only their
\* own field: the ledger, the pending queue and the blocks stay as they are;
\* the next generated block, and only blocks generated afterwards, carry the
\* new difficulty in the header and the new reward in the reward transaction.
C17_PureSetters ==
    [][/\ StepIsCall("update_difficulty")
            => /\ lastCall'.ret = "true"
               /\ difficulty' = lastCall'.value
               /\ UNCHANGED <<records, chain, current_transaction, reward,
                              miner_address>>
       /\ StepIsCall("update_reward")
            => /\ lastCall'.ret = "true"
               /\ reward' = lastCall'.value
               /\ UNCHANGED <<records, chain, current_transaction, difficulty,
                              miner_address>>
       /\ GenerateReturns
            => /\ IsPrefix(chain, chain')
               /\ chain'[Len(chain')].header.difficulty = difficulty
               /\ chain'[Len(chain')].transactions[1].amount = reward
               /\ lastCall.op = "update_difficulty"
                     => chain'[Len(chain')].header.difficulty = lastCall.value
               /\ lastCall.op = "update_reward"
                     => chain'[Len(chain')].transactions[1].amount = lastCall.value]_vars

C17_Witness ==
    /\ Returned
    /\ Len(chain) = 2
    /\ calls = 3
    /\ chain[1].header.difficulty = 1
    /\ chain[1].transactions[1].amount = InitialReward
    /\ chain[2].header.difficulty = 2
    /\ chain[2].transactions[1].amount = 50
    /\ chain[2].transactions[1].amount = reward
    /\ lastCall.op = "generate_new_block"

\* C18: for every transaction list of odd length the Merkle root equals the
\* root of the list with its last element appended once more; the folding ends
\* with exactly one hash for every non-empty list, and the root of a single
\* transaction is hash(leaf ++ leaf). The lists are the ones get_merkle is
\* applied to: in every state, the list the next block would commit.
C18_OddListPadding ==
    \A transactions \in {BlockTransactions} :
        LET leaves == MerkleLeaves(transactions)
            folded == MerkleFold(MerklePad(leaves))
            root == get_merkle(transactions)
        IN  /\ Len(folded) = 1
            /\ root = folded[1]
            /\ Len(transactions) % 2 = 1
                  => root = get_merkle(Append(transactions, transactions[Len(transactions)]))
            /\ Len(transactions) = 1
                  => root = hash_string(leaves[1] \o leaves[1])

C18_Witness ==
    /\ Returned
    /\ Len(BlockTransactions) = 3
    /\ BlockTransactions[2] # BlockTransactions[3]
    /\ get_merkle(BlockTransactions) =
          get_merkle(Append(BlockTransactions, BlockTransactions[3]))
    /\ get_merkle(BlockTransactions) # get_merkle(SubSeq(BlockTransactions, 1, 2))

\* The reward transactions of the blocks, and every recorded transaction.
RewardsInBlocks == [i \in 1..Len(chain) |-> chain[i].transactions[1]]

RecordedTransactions == RewardsInBlocks \o QueuedTransactions

RECURSIVE SumReceived(_, _)
SumReceived(transactions, account) ==
    IF transactions = <<>> THEN 0
    ELSE (IF Head(transactions).receiver = account THEN Head(transactions).amount ELSE 0)
            + SumReceived(Tail(transactions), account)

RECURSIVE SumSent(_, _)
SumSent(transactions, account) ==
    IF transactions = <<>> THEN 0
    ELSE (IF Head(transactions).sender = account THEN Head(transactions).amount ELSE 0)
            + SumSent(Tail(transactions), account)

\* The balance a replay of the recorded transactions gives: reward
\* transactions only credit.
Replayed(account) ==
    SumReceived(RecordedTransactions, account) - SumSent(QueuedTransactions, account)

\* C19: in every state a call returns in, the ledger is the replay of the
\* transactions of all blocks and of the pending queue: a balance is the sum
\* received minus the sum sent in transactions other than rewards, and an
\* account has an entry exactly if it is the receiver of a recorded transaction.
C19_LedgerIsReplay ==
    Returned
       => /\ DOMAIN records \subseteq Accounts
          /\ \A account \in Accounts \union {SystemSender} :
                /\ account \in DOMAIN records
                      <=> \E i \in 1..Len(RecordedTransactions) :
                             RecordedTransactions[i].receiver = account
                /\ Balance(records, account) = Replayed(account)

C19_Witness ==
    /\ Returned
    /\ Len(chain) = 2
    /\ Len(chain[2].transactions) = 2
    /\ Len(current_transaction) = 1
    /\ DOMAIN records = Accounts
    /\ \A account \in Accounts : records[account] = Replayed(account)
    /\ SumSent(QueuedTransactions, miner_address) > 0

\* C20: when every submitted amount and every reward is non-negative, every
\* balance is non-negative after any sequence of calls, self-transfers and
\* transfers by the miner included.
C20_NoOverdraft ==
    (/\ reward >= 0
     /\ \A i \in 1..Len(RecordedTransactions) : RecordedTransactions[i].amount >= 0)
       => \A account \in DOMAIN records : records[account] >= 0

C20_Witness ==
    /\ Returned
    /\ Len(accepted) = 2
    /\ \E i \in 1..2 : accepted[i].sender = accepted[i].receiver
    /\ \E i \in 1..2 : accepted[i].sender = miner_address /\ accepted[i].receiver = "bob"
    /\ lastCall.op = "new_transaction"
    /\ lastCall.ret = "false"
    /\ lastCall.value > Balance(records, lastCall.sender)
    /\ \A account \in DOMAIN records : records[account] >= 0

====
